---- MODULE Spec2Model ----
\* A model of the research pipeline of basic_research_agent.py (ResearchAgent:
\* search, fetch, summarize, synthesize, persist) and of the JSON action
\* selection of agent_chat.py (safe_json_parse, execute_action).
\*
\* Python strings the code inspects character by character (titles, URLs,
\* queries, timestamps, file names) are sequences of one-character strings.
\* A page text is represented by its length alone: the code only tests its
\* truthiness, takes len(text) and slices text[:7000].
EXTENDS Integers, Sequences, FiniteSets, TLC

VARIABLES
    pc,          \* position of ResearchAgent.run: the stage last completed
    run_no,      \* number of the current invocation of main()
    query,       \* the query of the current run
    clock,       \* the UTC second last read by now_iso()
    raw,         \* SpecSearch: what the search provider returned to WebSearchTool.run
    searched,    \* the list step_search returned
    kept,        \* the list step_fetch returned (its objects are mutated by step_summarize_each)
    docs,        \* the local variable docs of run()
    requests,    \* the requests the LLM backend received in this run, in order
    report,      \* the report step_synthesize_report returned
    reason,      \* why the run aborted ("" while it has not)
    memlog,      \* the lines of out_dir/memory.jsonl
    files,       \* the report files of out_dir: path -> content
    writes,      \* the paths persist_run opened for writing, in order
    memlog0,     \* the memory log when the current run started
    files0,      \* the report files when the current run started
    model_output,\* agent_chat.main: the raw model output of this turn
    respuesta    \* agent_chat.main: the outcome of execute_action for this turn

vars == <<pc, run_no, query, clock, raw, searched, kept, docs, requests, report,
          reason, memlog, files, writes, memlog0, files0, model_output, respuesta>>

pipelineVars == <<run_no, query, clock, kept, docs, requests, report, reason,
                  memlog, files, writes, memlog0, files0>>

\* Optional[str]: None is the empty tuple, a present value v is <<v>>
NoneV == <<>>
Some(v) == <<v>>

\* ------------------------------------------------------------------ strings

Min(a, b) == IF a <= b THEN a ELSE b

Range(s) == {s[i] : i \in 1..Len(s)}

\* Python's s[:n]
Prefix(s, n) == SubSeq(s, 1, Min(n, Len(s)))

\* all sequences over S of length at most n
SeqsUpTo(S, n) == UNION {[1..k -> S] : k \in 0..n}

IsSpace(c) == c = " "

RECURSIVE LStrip(_)
LStrip(s) ==
    IF s # <<>> /\ IsSpace(Head(s)) THEN LStrip(Tail(s)) ELSE s

RECURSIVE RStrip(_)
RStrip(s) ==
    IF s # <<>> /\ IsSpace(s[Len(s)]) THEN RStrip(SubSeq(s, 1, Len(s) - 1)) ELSE s

\* str.strip()
Strip(s) == RStrip(LStrip(s))

\* position of the first c in s, 0 when there is none
RECURSIVE FindFrom(_, _, _)
FindFrom(s, c, i) ==
    IF i > Len(s) THEN 0
    ELSE IF s[i] = c THEN i
    ELSE FindFrom(s, c, i + 1)

\* str.split("/")
RECURSIVE SplitSlash(_)
SplitSlash(s) ==
    LET i == FindFrom(s, "/", 1) IN
    IF i = 0 THEN <<s>>
    ELSE <<SubSeq(s, 1, i - 1)>> \o SplitSlash(SubSeq(s, i + 1, Len(s)))

\* "://" in url
HasSchemeSep(url) ==
    \E i \in 1..(Len(url) - 2) :
        url[i] = ":" /\ url[i + 1] = "/" /\ url[i + 2] = "/"

\* --------------------------------------------------------------- the search

\* WebSearchTool.run keeps the provider's results that have a title and an href
RECURSIVE WebSearchRun(_)
WebSearchRun(results) ==
    IF results = <<>> THEN <<>>
    ELSE LET r == Head(results) IN
         IF r.url # <<>> /\ r.title # <<>>
         THEN <<r>> \o WebSearchRun(Tail(results))
         ELSE WebSearchRun(Tail(results))

\* domain = url.split("/")[2] if "://" in url else url
Domain(url) ==
    IF HasSchemeSep(url) THEN SplitSlash(url)[3] ELSE url

\* key = (r["title"].strip(), domain)
Key(r) == <<Strip(r.title), Domain(r.url)>>

SourceDoc(idx, title, url) ==
    [idx |-> idx, title |-> title, url |-> url, text |-> NoneV, summary_bullets |-> NoneV]

\* the loop of step_search: rs is what is left of raw, acc the docs so far,
\* seen the keys so far, idx the next index
RECURSIVE SearchLoop(_, _, _, _)
SearchLoop(rs, acc, seen, idx) ==
    IF rs = <<>> THEN acc
    ELSE LET r == Head(rs) IN
         IF Key(r) \in seen
         THEN SearchLoop(Tail(rs), acc, seen, idx)
         ELSE SearchLoop(Tail(rs),
                         Append(acc, SourceDoc(idx, Strip(r.title), r.url)),
                         seen \cup {Key(r)},
                         idx + 1)

step_search(results) == SearchLoop(WebSearchRun(results), <<>>, {}, 1)

\* ------------------------------------------------------------ SourceDoc fields

\* a page text is its length; truthiness of an Optional[str] text: not None, not ""
TextTruthy(text) == text # NoneV /\ text[1] > 0

\* truthiness of summary_bullets: not None, not ""
BulletsTruthy(b) == b # NoneV /\ b[1] # ""

\* AgentConfig.min_chars
min_chars == 800

\* the slice d.text[:7000] of step_summarize_each
TextCap == 7000

\* the slice report_md[:500] of persist_run
PreviewCap == 500

\* the slice [:120] of safe_filename
FilenameCap == 120

\* AgentConfig.model
ModelName == "gpt-4o-mini"

\* ------------------------------------------------------------------- fetch

\* the test without its length condition: "if text"
KeepsAnyText(text) == TextTruthy(text)

\* step_fetch's test: text and len(text) >= self.cfg.min_chars
KeepsText(text) == TextTruthy(text) /\ text[1] >= min_chars

\* the loop of step_fetch; texts[i] is what loader.fetch returned for ds[i]
RECURSIVE FetchLoop(_, _, _, _)
FetchLoop(ds, texts, i, acc) ==
    IF i > Len(ds) THEN acc
    ELSE IF KeepsText(texts[i])
         THEN FetchLoop(ds, texts, i + 1, Append(acc, [ds[i] EXCEPT !.text = texts[i]]))
         ELSE FetchLoop(ds, texts, i + 1, acc)

\* a step_fetch that numbers the documents it keeps 1..n
step_fetch_renumbered(ds, texts) ==
    [i \in 1..Len(FetchLoop(ds, texts, 1, <<>>)) |->
        [FetchLoop(ds, texts, 1, <<>>)[i] EXCEPT !.idx = i]]

step_fetch(ds, texts) == FetchLoop(ds, texts, 1, <<>>)

\* --------------------------------------------------------------- summarize

SummarizeRequest(d) ==
    [kind |-> "summarize", idx |-> d.idx, chars |-> Min(d.text[1], TextCap)]

\* the loop of step_summarize_each over the first n documents; replies[i] is
\* what llm.chat returned for ds[i]. The result is the list with its objects
\* mutated.
RECURSIVE SummarizeLoop(_, _, _)
SummarizeLoop(ds, replies, n) ==
    IF n = 0 THEN ds
    ELSE LET before == SummarizeLoop(ds, replies, n - 1) IN
         IF ~TextTruthy(ds[n].text) THEN before
         ELSE [before EXCEPT ![n].summary_bullets = Some(replies[n])]

\* one batched request for all the documents
SummarizeRequestsBatched(ds, n) ==
    IF n = 0 THEN <<>> ELSE <<SummarizeRequest(ds[1])>>

\* the requests the loop sends for the first n documents
RECURSIVE SummarizeRequests(_, _)
SummarizeRequests(ds, n) ==
    IF n = 0 THEN <<>>
    ELSE IF ~TextTruthy(ds[n].text) THEN SummarizeRequests(ds, n - 1)
         ELSE Append(SummarizeRequests(ds, n - 1), SummarizeRequest(ds[n]))

\* the test "if d.summary_bullets is not None"
HasSummaryNotNone(d) == d.summary_bullets # NoneV

\* the test "if d.summary_bullets" of run, step_synthesize_report and persist_run
HasSummary(d) == BulletsTruthy(d.summary_bullets)

RECURSIVE SelectDocs(_, _)
SelectDocs(ds, n) ==
    IF n = 0 THEN <<>>
    ELSE IF HasSummary(ds[n]) THEN Append(SelectDocs(ds, n - 1), ds[n])
         ELSE SelectDocs(ds, n - 1)

\* [d for d in docs if d.summary_bullets]
WithSummary(ds) == SelectDocs(ds, Len(ds))

\* -------------------------------------------------------------- synthesize

Indices(ds) == [i \in 1..Len(ds) |-> ds[i].idx]

\* the request of step_synthesize_report: the bracketed indices of
\* per_source_points and of sources_list
SynthesizeRequest(q, ds) ==
    [kind |-> "synthesize", query |-> q,
     points |-> Indices(WithSummary(ds)),
     sources |-> Indices(WithSummary(ds))]

\* ----------------------------------------------------------------- persist

Digits == <<"0", "1", "2", "3", "4", "5", "6", "7", "8", "9">>

\* now_iso(): the UTC time to the second, "...T12:00:0tZ" for the second t
now_iso(t) == <<"T", "1", "2", ":", "0", "0", ":", "0", Digits[t + 1], "Z">>

AlnumChars == Range(Digits) \cup {"a", "b", "d", "m", "q", "T", "Z"}

\* c.isalnum() or c in (" ", "_", "-", ".")
SafeChar(c) == c \in AlnumChars \/ c \in {" ", "_", "-", "."}

RECURSIVE FilterSafe(_)
FilterSafe(s) ==
    IF s = <<>> THEN <<>>
    ELSE IF SafeChar(Head(s)) THEN <<Head(s)>> \o FilterSafe(Tail(s))
         ELSE FilterSafe(Tail(s))

\* .replace(" ", "_")
SpacesToUnderscores(s) == [i \in 1..Len(s) |-> IF s[i] = " " THEN "_" ELSE s[i]]

safe_filename(text) ==
    Prefix(SpacesToUnderscores(RStrip(FilterSafe(text))), FilenameCap)

\* f"{ts}_{query}.md"
ReportName(ts, q) == ts \o <<"_">> \o q \o <<".", "m", "d">>

SourceEntry(d) == [idx |-> d.idx, title |-> d.title, url |-> d.url]

\* the dict run of persist_run; json.dumps writes it on one line
RunRecord(ts, q, ds, rep) ==
    [timestamp |-> ts, query |-> q, model |-> ModelName,
     sources |-> [i \in 1..Len(WithSummary(ds)) |-> SourceEntry(WithSummary(ds)[i])],
     report_preview |-> Prefix(rep, PreviewCap)]

\* open(mem_path, "w"): the log is truncated before the line is written
OverwriteLog(log, line) == <<line>>

\* open(mem_path, "a") and f.write(line + "\n")
AppendLine(log, line) == Append(log, line)

\* open(out_path, "w") and f.write(report_md)
WriteFile(fs, path, content) ==
    {f \in fs : f.path # path} \cup {[path |-> path, content |-> content]}

\* Python values of agent_chat: see the section agent_chat below
PyStr(pieces) == [t |-> "str", s |-> pieces, m |-> <<>>]
PyNum(lit) == [t |-> "num", s |-> <<lit>>, m |-> <<>>]
PyDict(members) == [t |-> "obj", s |-> <<>>, m |-> members]
PyNone == [t |-> "none", s |-> <<>>, m |-> <<>>]

\* ------------------------------------------------------- bounds and inputs

\* the most results the search provider returns to one query
MaxRaw == 2

\* the most invocations of main() into one output directory
MaxRuns == 2

\* the last UTC second of the clock
MaxTick == 1

Str_T == <<"T">>
Str_sT == <<" ", "T", " ">>
Str_S == <<"S">>
Url_ax == <<"h", ":", "/", "/", "a", "/", "x">>
Url_ay == <<"h", ":", "/", "/", "a", "/", "y">>
Url_bx == <<"h", ":", "/", "/", "b", "/", "x">>
Url_a8 == <<"h", ":", "/", "/", "a", ":", "8", "/", "x">>
Url_a == <<"h", ":", "/", "/", "a">>
Url_bare == <<"a", "/", "x">>

\* what the provider may return in a pipeline run: two results with the same
\* key (the titles differ in surrounding blanks) and one with a key of its own
PipelineResults ==
    {[title |-> Str_T, url |-> Url_ax], [title |-> Str_sT, url |-> Url_ax],
     [title |-> Str_S, url |-> Url_bx]}

\* loader.fetch: None (bad status, exception, nothing extracted), or a text
FetchOutcomes == {NoneV, Some(799), Some(800), Some(7001)}

\* llm.chat: the reply, stripped; it may be empty
Replies == {"", "- fact"}

Reports == {<<"r">>}

Queries == {<<"a", " ", "b">>, <<"a", "_", "b">>}

\* ------------------------------------------------------ ResearchAgent.run

FreshRun ==
    /\ searched = <<>>
    /\ kept = <<>>
    /\ docs = <<>>
    /\ requests = <<>>
    /\ report = <<>>
    /\ reason = ""

NoChat ==
    /\ model_output = <<>>
    /\ respuesta = [kind |-> "none", val |-> PyNone]

Init ==
    /\ pc = "Created"
    /\ run_no = 1
    /\ query \in Queries
    /\ clock = 0
    /\ raw = <<>>
    /\ FreshRun
    /\ memlog = <<>>
    /\ files = {}
    /\ writes = <<>>
    /\ memlog0 = <<>>
    /\ files0 = {}
    /\ NoChat

Abort(why) ==
    /\ pc' = "Aborted"
    /\ reason' = why

\* main() is invoked again, with the same output directory
StartRun ==
    /\ pc \in {"Persisted", "Aborted"}
    /\ run_no < MaxRuns
    /\ pc' = "Created"
    /\ run_no' = run_no + 1
    /\ query' \in Queries
    /\ searched' = <<>>
    /\ kept' = <<>>
    /\ docs' = <<>>
    /\ requests' = <<>>
    /\ report' = <<>>
    /\ reason' = ""
    /\ memlog0' = memlog
    /\ files0' = files
    /\ UNCHANGED <<clock, raw, memlog, files, writes, model_output, respuesta>>

\* docs = self.step_search(query)
StepSearch ==
    /\ pc = "Created"
    /\ \E results \in SeqsUpTo(PipelineResults, MaxRaw) :
          /\ searched' = step_search(results)
          /\ docs' = step_search(results)
    /\ pc' = "Searched"
    /\ UNCHANGED <<run_no, query, clock, raw, kept, requests, report, reason,
                   memlog, files, writes, memlog0, files0, model_output, respuesta>>

\* self.search.run(query) raises: the provider is unreachable
SearchError ==
    /\ pc = "Created"
    /\ Abort("search_error")
    /\ UNCHANGED <<run_no, query, clock, raw, searched, kept, docs, requests, report,
                   memlog, files, writes, memlog0, files0, model_output, respuesta>>

\* a step_fetch whose loader lets an exception of the request escape
StepFetchRaising ==
    /\ pc = "Searched"
    /\ Abort("fetch_error")
    /\ UNCHANGED <<run_no, query, clock, raw, searched, kept, docs, requests, report,
                   memlog, files, writes, memlog0, files0, model_output, respuesta>>

\* docs = self.step_fetch(docs)
StepFetch ==
    /\ pc = "Searched"
    /\ \E texts \in [1..Len(docs) -> FetchOutcomes] :
          /\ docs' = step_fetch(docs, texts)
          /\ kept' = step_fetch(docs, texts)
    /\ pc' = "Fetched"
    /\ UNCHANGED <<run_no, query, clock, raw, searched, requests, report, reason,
                   memlog, files, writes, memlog0, files0, model_output, respuesta>>

\* a run that records itself in the memory log before it raises
NoUsableSourcesLogged ==
    /\ pc = "Fetched"
    /\ docs = <<>>
    /\ Abort("no_sources")
    /\ memlog' = AppendLine(memlog, RunRecord(now_iso(clock), query, docs, report))
    /\ UNCHANGED <<run_no, query, clock, raw, searched, kept, docs, requests, report,
                   files, writes, memlog0, files0, model_output, respuesta>>

\* if not docs: raise RuntimeError("No usable sources found.")
NoUsableSources ==
    /\ pc = "Fetched"
    /\ docs = <<>>
    /\ Abort("no_sources")
    /\ UNCHANGED <<run_no, query, clock, raw, searched, kept, docs, requests, report,
                   memlog, files, writes, memlog0, files0, model_output, respuesta>>

\* self.step_summarize_each(docs); docs = [d for d in docs if d.summary_bullets]
StepSummarizeEach ==
    /\ pc = "Fetched"
    /\ docs # <<>>
    /\ \E replies \in [1..Len(docs) -> Replies] :
          /\ kept' = SummarizeLoop(docs, replies, Len(docs))
          /\ docs' = WithSummary(SummarizeLoop(docs, replies, Len(docs)))
    /\ requests' = requests \o SummarizeRequests(docs, Len(docs))
    /\ pc' = "Summarized"
    /\ UNCHANGED <<run_no, query, clock, raw, searched, report, reason,
                   memlog, files, writes, memlog0, files0, model_output, respuesta>>

\* self.llm.chat raises for the n-th document: the documents before it are
\* summarized, the request for it was sent, and the error leaves run()
SummarizeError ==
    /\ pc = "Fetched"
    /\ docs # <<>>
    /\ \E n \in 1..Len(docs) :
          /\ TextTruthy(docs[n].text)
          /\ \E replies \in [1..Len(docs) -> Replies] :
                /\ kept' = SummarizeLoop(docs, replies, n - 1)
                /\ docs' = SummarizeLoop(docs, replies, n - 1)
          /\ requests' = requests \o SummarizeRequests(docs, n)
    /\ Abort("backend_error")
    /\ UNCHANGED <<run_no, query, clock, raw, searched, report,
                   memlog, files, writes, memlog0, files0, model_output, respuesta>>

\* report = self.step_synthesize_report(query, docs)
StepSynthesizeReport ==
    /\ pc = "Summarized"
    /\ requests' = Append(requests, SynthesizeRequest(query, docs))
    /\ report' \in Reports
    /\ pc' = "Synthesized"
    /\ UNCHANGED <<run_no, query, clock, raw, searched, kept, docs, reason,
                   memlog, files, writes, memlog0, files0, model_output, respuesta>>

\* self.llm.chat raises in step_synthesize_report
SynthesizeError ==
    /\ pc = "Summarized"
    /\ requests' = Append(requests, SynthesizeRequest(query, docs))
    /\ Abort("backend_error")
    /\ UNCHANGED <<run_no, query, clock, raw, searched, kept, docs, report,
                   memlog, files, writes, memlog0, files0, model_output, respuesta>>

\* out_path = self.persist_run(query, docs, report); t is the second now_iso reads
PersistRun ==
    /\ pc = "Synthesized"
    /\ \E t \in clock..MaxTick :
          /\ clock' = t
          /\ memlog' = AppendLine(memlog, RunRecord(now_iso(t), query, docs, report))
          /\ files' = WriteFile(files, safe_filename(ReportName(now_iso(t), query)), report)
          /\ writes' = Append(writes, safe_filename(ReportName(now_iso(t), query)))
    /\ pc' = "Persisted"
    /\ UNCHANGED <<run_no, query, raw, searched, kept, docs, requests, report, reason,
                   memlog0, files0, model_output, respuesta>>

Next ==
    \/ StartRun
    \/ StepSearch
    \/ SearchError
    \/ StepFetch
    \/ NoUsableSources
    \/ StepSummarizeEach
    \/ SummarizeError
    \/ StepSynthesizeReport
    \/ SynthesizeError
    \/ PersistRun

Spec == Init /\ [][Next]_vars

\* ------------------------------------------------- step_search on its own

\* what the provider may return when step_search is run on its own: titles with
\* and without surrounding blanks, an empty title and an empty href (dropped by
\* WebSearchTool.run), URLs of one host that differ in path or in an explicit
\* port, a URL without a path, and a URL without a scheme
SearchTitles == {Str_T, Str_sT, Str_S, <<>>}

SearchUrls == {Url_ax, Url_ay, Url_bx, Url_a8, Url_a, Url_bare, <<>>}

SearchResults == [title : SearchTitles, url : SearchUrls]

\* step_search on its own takes lists one longer than a pipeline run
SearchLen == MaxRaw + 1

InitSearch ==
    /\ pc = "Created"
    /\ run_no = 1
    /\ query \in {<<"q">>}
    /\ clock = 0
    /\ raw \in SeqsUpTo(SearchResults, SearchLen)
    /\ FreshRun
    /\ memlog = <<>>
    /\ files = {}
    /\ writes = <<>>
    /\ memlog0 = <<>>
    /\ files0 = {}
    /\ NoChat

\* docs = self.step_search(query), the provider returning raw
SearchCall ==
    /\ pc = "Created"
    /\ searched' = step_search(raw)
    /\ docs' = step_search(raw)
    /\ pc' = "Searched"
    /\ UNCHANGED <<run_no, query, clock, raw, kept, requests, report, reason,
                   memlog, files, writes, memlog0, files0, model_output, respuesta>>

NextSearch == SearchCall

SpecSearch == InitSearch /\ [][NextSearch]_vars

\* the host of an absolute URL scheme://host[:port]/path: what follows "://"
\* up to the next "/", without the port
UrlHost(url) ==
    LET authority == SplitSlash(url)[3]
        colon == FindFrom(authority, ":", 1)
    IN  IF colon = 0 THEN authority ELSE SubSeq(authority, 1, colon - 1)

IsAbsolute(url) ==
    Len(url) >= 4 /\ url[2] = ":" /\ url[3] = "/" /\ url[4] = "/"

\* the positions that are the first to carry their key; keys[i] is the key
\* of the i-th result
FirstPositions(keys) ==
    {i \in 1..Len(keys) : \A j \in 1..(i - 1) : keys[j] # keys[i]}

\* ds is rs reduced to the first result of every key, in order, numbered 1..N
KeepsFirstPerKey(rs, ds, keys) ==
    LET first == FirstPositions(keys) IN
    /\ Len(ds) = Cardinality(first)
    /\ \A i \in first :
          LET k == Cardinality({j \in first : j <= i}) IN
          /\ ds[k].idx = k
          /\ ds[k].title = Strip(rs[i].title)
          /\ ds[k].url = rs[i].url

HostKey(r) == <<Strip(r.title), UrlHost(r.url)>>

\* C1: for every list of raw search results with absolute URLs, step_search
\* keeps for each (trimmed title, URL host) pair only the first result
\* carrying it, in the original order, with the indices 1..N.
C1_FirstPerTitleAndHost ==
    (pc = "Searched" /\ \A i \in 1..Len(raw) : IsAbsolute(raw[i].url) /\ raw[i].title # <<>>)
        => KeepsFirstPerKey(raw, searched, [i \in 1..Len(raw) |-> HostKey(raw[i])])

\* What step_search does guarantee: the same with the key the code computes
\* (the text between the second and third "/", port included, or the whole
\* URL when it has no "://").
StepSearchKeepsFirstPerCodeKey ==
    pc = "Searched" =>
        KeepsFirstPerKey(WebSearchRun(raw), searched,
                         [i \in 1..Len(WebSearchRun(raw)) |-> Key(WebSearchRun(raw)[i])])

StepSearchSawDuplicate ==
    /\ pc = "Searched"
    /\ Len(searched) >= 2
    /\ Len(searched) < Len(WebSearchRun(raw))

\* ------------------------------------------------------------- agent_chat
\* A model output is a sequence of lexemes: a word of prose, a blank, a JSON
\* number, the braces, the comma, a key with its colon, a string literal.
\* A Python str value is the sequence of its pieces; a JSON value is a record
\* [t, s, m]: t its type, s the pieces of a str (the literal of a number),
\* m the members of an object, in order, as <<key, value>> entries.

NumToks == {"42"}

StrToks == {"'answer'", "'hi'", "'dance'", "'get_weather'", "'web_search'", "'Madrid'"}

KeyToks == {"action:", "args:", "text:", "city:", "query:"}

\* the content of a string literal, the name of a key
Unquoted(tok) ==
    CASE tok = "'answer'" -> "answer"
      [] tok = "'hi'" -> "hi"
      [] tok = "'dance'" -> "dance"
      [] tok = "'get_weather'" -> "get_weather"
      [] tok = "'web_search'" -> "web_search"
      [] tok = "'Madrid'" -> "Madrid"
      [] tok = "action:" -> "action"
      [] tok = "args:" -> "args"
      [] tok = "text:" -> "text"
      [] tok = "city:" -> "city"
      [] tok = "query:" -> "query"

ParseFail == [ok |-> FALSE, val |-> PyNone, next |-> 0]
ParseOk(v, n) == [ok |-> TRUE, val |-> v, next |-> n]

\* the first position from i on that holds no blank
RECURSIVE SkipWs(_, _)
SkipWs(toks, i) ==
    IF i <= Len(toks) /\ IsSpace(toks[i]) THEN SkipWs(toks, i + 1) ELSE i

\* the JSON decoder: a value at position i, and the members of an object
RECURSIVE ParseValue(_, _)
RECURSIVE ParseMembers(_, _, _)
ParseValue(toks, i) ==
    LET j == SkipWs(toks, i) IN
    IF j > Len(toks) THEN ParseFail
    ELSE IF toks[j] \in NumToks THEN ParseOk(PyNum(toks[j]), j + 1)
    ELSE IF toks[j] \in StrToks THEN ParseOk(PyStr(<<Unquoted(toks[j])>>), j + 1)
    ELSE IF toks[j] = "{" THEN
        LET k == SkipWs(toks, j + 1) IN
        IF k <= Len(toks) /\ toks[k] = "}" THEN ParseOk(PyDict(<<>>), k + 1)
        ELSE ParseMembers(toks, k, <<>>)
    ELSE ParseFail

ParseMembers(toks, i, acc) ==
    LET j == SkipWs(toks, i) IN
    IF j > Len(toks) \/ toks[j] \notin KeyToks THEN ParseFail
    ELSE LET v == ParseValue(toks, j + 1) IN
         IF ~v.ok THEN ParseFail
         ELSE LET k == SkipWs(toks, v.next)
                  members == Append(acc, <<Unquoted(toks[j]), v.val>>)
              IN  IF k > Len(toks) THEN ParseFail
                  ELSE IF toks[k] = "}" THEN ParseOk(PyDict(members), k + 1)
                  ELSE IF toks[k] = "," THEN ParseMembers(toks, k + 1, members)
                  ELSE ParseFail

\* json.loads: one value and nothing but blanks after it, else JSONDecodeError
json_loads(toks) ==
    LET r == ParseValue(toks, 1) IN
    IF r.ok /\ SkipWs(toks, r.next) > Len(toks) THEN r ELSE ParseFail

\* position of the last c in s, 0 when there is none
RECURSIVE FindLast(_, _, _)
FindLast(s, c, i) ==
    IF i < 1 THEN 0
    ELSE IF s[i] = c THEN i
    ELSE FindLast(s, c, i - 1)

\* re.search(r"\{.*\}", output, re.DOTALL): from the first "{" to the last "}"
BraceMatch(toks) ==
    LET i == FindFrom(toks, "{", 1)
        j == FindLast(toks, "}", Len(toks))
    IN  IF i > 0 /\ j > i THEN SubSeq(toks, i, j) ELSE <<>>

FallbackAnswer(out) ==
    PyDict(<< <<"action", PyStr(<<"answer">>)>>,
              <<"args", PyDict(<< <<"text", PyStr(out)>> >>)>> >>)

safe_json_parse(output) ==
    LET out == Strip(output)
        strict == json_loads(out)
        inner == json_loads(BraceMatch(out))
    IN  IF strict.ok THEN strict.val
        ELSE IF BraceMatch(out) # <<>> /\ inner.ok THEN inner.val
        ELSE FallbackAnswer(out)

\* dict.get(key, default): the last member named key wins
RECURSIVE DictGet(_, _, _)
DictGet(members, key, default) ==
    IF members = <<>> THEN default
    ELSE IF members[Len(members)][1] = key THEN members[Len(members)][2]
    ELSE DictGet(SubSeq(members, 1, Len(members) - 1), key, default)

Returns(v) == [kind |-> "returns", val |-> v]
Raises(exc) == [kind |-> "raises", val |-> PyStr(<<exc>>)]

\* how an f-string renders a value
Rendered(v) == IF v.t \in {"str", "num"} THEN v.s ELSE <<"<repr>">>

\* what the two requests of get_weather meet
WeatherOutcomes == {"no_results", "no_current", "ok", "network_error"}

get_weather(city, weather) ==
    CASE weather = "network_error" -> Raises("RequestException")
      [] weather = "no_results" ->
            Returns(PyStr(<<"No encontre la ciudad ">> \o Rendered(city) \o <<".">>))
      [] weather = "no_current" ->
            Returns(PyStr(<<"No pude obtener el clima en este momento.">>))
      [] weather = "ok" ->
            Returns(PyStr(<<"El clima en ">> \o Rendered(city) \o <<" es ...">>))

\* query.replace(" ", "+")
SpacesToPlus(s) == [i \in 1..Len(s) |-> IF s[i] = " " THEN "+" ELSE s[i]]

web_search(q) ==
    IF q.t # "str" THEN Raises("AttributeError")
    ELSE Returns(PyStr(<<"Puedes ver resultados en: https://duckduckgo.com/?q=">>
                       \o SpacesToPlus(q.s)))

IsAction(action, name) == action.t = "str" /\ action.s = <<name>>

\* args.get(key, ""), an AttributeError when args is no dict
ArgsGet(args, key) ==
    IF args.t # "obj" THEN Raises("AttributeError")
    ELSE Returns(DictGet(args.m, key, PyStr(<<>>)))

execute_action(output, weather) ==
    LET action_obj == safe_json_parse(output) IN
    IF action_obj.t # "obj" THEN Raises("AttributeError")
    ELSE LET action == DictGet(action_obj.m, "action", PyNone)
             args == DictGet(action_obj.m, "args", PyDict(<<>>))
         IN  IF IsAction(action, "get_weather") THEN
                 IF ArgsGet(args, "city").kind = "raises" THEN ArgsGet(args, "city")
                 ELSE get_weather(ArgsGet(args, "city").val, weather)
             ELSE IF IsAction(action, "web_search") THEN
                 IF ArgsGet(args, "query").kind = "raises" THEN ArgsGet(args, "query")
                 ELSE web_search(ArgsGet(args, "query").val)
             ELSE IF IsAction(action, "answer") THEN ArgsGet(args, "text")
             ELSE Returns(PyStr(<<"[Error: accion desconocida ">> \o Rendered(action)
                                \o <<"]">>))

\* the longest model output enumerated lexeme by lexeme
MaxOut == 4

CoreToks == {"Sure", "42", "{", "}", " ", ",", "action:", "args:", "'answer'", "'dance'"}

Out_answer ==
    <<"{", "action:", "'answer'", ",", "args:", "{", "text:", "'hi'", "}", "}">>

LongOutputs ==
    {Out_answer,
     <<"Sure", " ">> \o Out_answer \o <<" ", "Sure">>,
     <<"{", "action:", "'get_weather'", ",", "args:", "{", "city:", "'Madrid'", "}", "}">>,
     <<"{", "action:", "'web_search'", ",", "args:", "{", "query:", "'hi'", "}", "}">>,
     <<"{", "action:", "'web_search'", ",", "args:", "{", "query:", "42", "}", "}">>,
     <<"{", "action:", "'answer'", ",", "args:", "{", "text:", "42", "}", "}">>,
     <<"{", "action:", "'answer'", ",", "args:", "'hi'", "}">>,
     <<"{", "action:", "'answer'", ",", "args:", "{", "text:", "'hi'", "}">>}

ModelOutputs == SeqsUpTo(CoreToks, MaxOut) \cup LongOutputs

InitChat ==
    /\ pc = "Prompt"
    /\ run_no = 1
    /\ query = <<>>
    /\ clock = 0
    /\ raw = <<>>
    /\ FreshRun
    /\ memlog = <<>>
    /\ files = {}
    /\ writes = <<>>
    /\ memlog0 = <<>>
    /\ files0 = {}
    /\ NoChat

\* model_output = ask_qwen(prompt)
AskQwen ==
    /\ pc = "Prompt"
    /\ model_output' \in ModelOutputs
    /\ pc' = "Asked"
    /\ UNCHANGED <<raw, searched, respuesta>>
    /\ UNCHANGED pipelineVars

\* respuesta = execute_action(model_output); an exception ends main()
ExecuteAction ==
    /\ pc = "Asked"
    /\ \E weather \in WeatherOutcomes :
          respuesta' = execute_action(model_output, weather)
    /\ pc' = IF respuesta'.kind = "raises" THEN "Crashed" ELSE "Answered"
    /\ UNCHANGED <<raw, searched, model_output>>
    /\ UNCHANGED pipelineVars

\* print("Agente:", respuesta) and the next turn of the loop
NextTurn ==
    /\ pc = "Answered"
    /\ pc' = "Prompt"
    /\ model_output' = <<>>
    /\ respuesta' = [kind |-> "none", val |-> PyNone]
    /\ UNCHANGED <<raw, searched>>
    /\ UNCHANGED pipelineVars

NextChat ==
    \/ AskQwen
    \/ ExecuteAction
    \/ NextTurn

SpecChat == InitChat /\ [][NextChat]_vars

\* the output yields a JSON object, by the strict parse or by the parse of
\* what lies between its first "{" and its last "}"
YieldsActionObject(output) ==
    \/ json_loads(Strip(output)).ok /\ json_loads(Strip(output)).val.t = "obj"
    \/ /\ BraceMatch(Strip(output)) # <<>>
       /\ json_loads(BraceMatch(Strip(output))).ok

\* C6: for every raw model output execute_action returns a string and never
\* raises, and an output that yields no action object is returned whole,
\* stripped, as the plain answer.
C6_MalformedOutputIsAnswered ==
    pc \in {"Answered", "Crashed"} =>
        /\ respuesta.kind = "returns"
        /\ respuesta.val.t = "str"
        /\ ~YieldsActionObject(model_output) => respuesta.val.s = Strip(model_output)

\* What execute_action does guarantee: an output on which both parses fail is
\* returned whole, stripped.
ChatUnparsableIsAnswered ==
    (/\ pc \in {"Answered", "Crashed"}
     /\ ~json_loads(Strip(model_output)).ok
     /\ ~json_loads(BraceMatch(Strip(model_output))).ok)
        => respuesta = Returns(PyStr(Strip(model_output)))

\* the scenario of the embedded object: "Sure {...} Sure" answers "hi"
ChatEmbeddedObjectIsExecuted ==
    (pc = "Answered" /\ model_output = <<"Sure", " ">> \o Out_answer \o <<" ", "Sure">>)
        => respuesta = Returns(PyStr(<<"hi">>))

\* ------------------------------------------------- claims on the pipeline

LastLine == memlog[Len(memlog)]

\* C2: every document passed to step_summarize_each has a text, of at least
\* min_chars characters, and so has every document a summarize request is
\* sent for.
C2_SummarizerInputHasText ==
    /\ pc = "Fetched" =>
          \A i \in 1..Len(docs) :
              docs[i].text # NoneV /\ docs[i].text[1] >= min_chars
    /\ \A n \in 1..Len(requests) :
          requests[n].kind = "summarize" =>
              \E i \in 1..Len(kept) :
                  /\ kept[i].idx = requests[n].idx
                  /\ kept[i].text # NoneV
                  /\ kept[i].text[1] >= min_chars

C2_Witness ==
    /\ pc = "Fetched"
    /\ Len(searched) = 2
    /\ Len(docs) = 1
    /\ docs[1].text = Some(min_chars)

\* C3: a run that ends in a fatal condition (search error, no usable
\* sources, backend error) leaves the memory log and the report files as they
\* were when it started.
C3_NothingPersistedOnAbort ==
    pc = "Aborted" => memlog = memlog0 /\ files = files0

C3_Witness ==
    /\ pc = "Aborted"
    /\ reason = "no_sources"
    /\ Len(memlog) = 1
    /\ Cardinality(files) = 1

\* C4: the memory log changes only when persist_run completes, and then by
\* one line added at its end, the lines before it unchanged; it holds one
\* line for every run persisted.
C4_LogIsAppendOnly ==
    [][/\ (pc = "Synthesized" /\ pc' = "Persisted") =>
             /\ Len(memlog') = Len(memlog) + 1
             /\ SubSeq(memlog', 1, Len(memlog)) = memlog
       /\ ~(pc = "Synthesized" /\ pc' = "Persisted") => memlog' = memlog
       /\ Len(memlog') = Len(writes')]_vars

C4_Witness ==
    /\ pc = "Persisted"
    /\ Len(memlog) = 2
    /\ memlog[1] # memlog[2]

\* the document of index i has a summary, present and not empty
Summarized(i) ==
    \E k \in 1..Len(kept) :
        /\ kept[k].idx = i
        /\ kept[k].summary_bullets # NoneV
        /\ kept[k].summary_bullets[1] # ""

\* C5: every index in the synthesis request (per-source bullets, source
\* list) and in the persisted record's sources belongs to a document whose
\* summary_bullets is present and not empty.
C5_OnlySummarizedSourcesCited ==
    /\ \A n \in 1..Len(requests) :
          requests[n].kind = "synthesize" =>
              /\ \A j \in 1..Len(requests[n].points) : Summarized(requests[n].points[j])
              /\ \A j \in 1..Len(requests[n].sources) : Summarized(requests[n].sources[j])
    /\ pc = "Persisted" =>
          \A j \in 1..Len(LastLine.sources) : Summarized(LastLine.sources[j].idx)

C5_Witness ==
    /\ pc = "Persisted"
    /\ Len(kept) = 2
    /\ kept[1].summary_bullets = Some("")
    /\ Len(LastLine.sources) = 1
    /\ LastLine.sources[1].idx = 2

Forward ==
    {<<"Created", "Searched">>, <<"Searched", "Fetched">>, <<"Fetched", "Summarized">>,
     <<"Summarized", "Synthesized">>, <<"Synthesized", "Persisted">>}

\* a step of a run: to the next stage, or from a finished run to a new one
InOrder ==
    \/ <<pc, pc'>> \in Forward
    \/ pc' = "Aborted"
    \/ pc \in {"Persisted", "Aborted"} /\ pc' = "Created"

AsSearched(d) ==
    \E k \in 1..Len(searched) :
        /\ searched[k].idx = d.idx
        /\ searched[k].title = d.title
        /\ searched[k].url = d.url

\* C8: the index of every document seen by step_fetch, step_summarize_each,
\* step_synthesize_report and persist_run is the one step_search gave it.
C8_IndicesAreStable ==
    /\ \A i \in 1..Len(docs) : AsSearched(docs[i])
    /\ \A i \in 1..Len(kept) : AsSearched(kept[i])
    /\ pc = "Persisted" =>
          \A j \in 1..Len(LastLine.sources) : AsSearched(LastLine.sources[j])

C8_Witness ==
    /\ pc = "Persisted"
    /\ Len(searched) = 2
    /\ Len(kept) = 1
    /\ Len(LastLine.sources) = 1
    /\ LastLine.sources[1].idx = 2

\* C9: a run that reaches Persisted with k documents kept by the fetch has
\* sent the backend k summarize requests, one for each kept document in
\* increasing order of index, and then one synthesize request.
C9_BackendRequestsInOrder ==
    pc = "Persisted" =>
        /\ Len(requests) = Len(kept) + 1
        /\ \A i \in 1..Len(kept) :
              /\ requests[i].kind = "summarize"
              /\ requests[i].idx = kept[i].idx
              /\ i > 1 => requests[i - 1].idx < requests[i].idx
        /\ requests[Len(requests)].kind = "synthesize"

C9_Witness ==
    /\ pc = "Persisted"
    /\ Len(kept) = 2
    /\ Len(requests) = 3

\* C10: persist_run never writes a report path an earlier run wrote: the
\* paths written are pairwise different, and there is a report file for
\* every run persisted.
C10_ReportPathsAreFresh ==
    /\ \A i, j \in 1..Len(writes) : i < j => writes[i] # writes[j]
    /\ Cardinality(files) = Len(writes)

====
